---------------------------- MODULE Spec2Model ----------------------------
(***************************************************************************)
(* HTML character-reference decoding of the tokenizer                      *)
(* (src/html_parser/consume_char_refs.rs).                                 *)
(*                                                                         *)
(* Characters are Unicode scalar values (integers).  The character stream  *)
(* holds the ampersand followed by the text after it; a call of            *)
(* consume_character_reference starts with the cursor just after the       *)
(* ampersand.  The stream, the consume buffer and the parse-error sink     *)
(* belong to the Tokenizer, whose code is not part of the excerpt: their   *)
(* operations follow the interface description (spec.md, sections 3, 6).   *)
(***************************************************************************)
EXTENDS Integers, Sequences, FiniteSets, TLC

VARIABLES
    stream,                  \* tokenizer.stream: the input text, "&" first
    pos,                     \* tokenizer.stream: number of characters read
    consume_buffer,          \* tokenizer consume buffer
    parse_errors,            \* messages handed to tokenizer.parse_error
    additional_allowed_char, \* the Option<char> argument (None: NoChar)
    pc,                      \* position inside the call
    len,                     \* consume_dash_entity: let len
    is_hex,                  \* consume_dash_entity: let mut is_hex
    str_num,                 \* consume_dash_entity: let mut str_num
    i,                       \* consume_dash_entity: let mut i
    num,                     \* consume_dash_entity: let num
    pre,                     \* history: the consume buffer when the call began
    trace,                   \* history: stream operations, decoders and checks that acted
    prev,                    \* history: outcome of the call on the earlier pair
    codepoint,               \* in_reserved_number_range: its argument
    ret                      \* in_reserved_number_range: its result

tok_vars == <<stream, pos, consume_buffer, parse_errors, additional_allowed_char>>
loc_vars == <<len, is_hex, str_num, i, num>>
vars == <<stream, pos, consume_buffer, parse_errors, additional_allowed_char,
          pc, len, is_hex, str_num, i, num, pre, trace, prev, codepoint, ret>>

---------------------------------------------------------------------------
(* Characters *)

NoChar == -1          \* Option::None, and what look_ahead yields past the end
CHAR_TAB == 9
CHAR_LF == 10
CHAR_FF == 12
CHAR_AMP == 38        \* '&'
CHAR_DASH == 35       \* '#'
CHAR_SEMI == 59       \* ';'
CHAR_LOWER_X == 120   \* 'x'
CHAR_UPPER_X == 88    \* 'X'
CHAR_REPLACEMENT == \hFFFD

\* char::is_ascii_digit
is_ascii_digit(c) == c \in 48..57

\* char::is_ascii_hexdigit
is_ascii_hexdigit(c) == c \in 48..57 \/ c \in 65..70 \/ c \in 97..102

---------------------------------------------------------------------------
(* u32.  TLC's integers are 32-bit signed, so a u32 is kept as its         *)
(* two 16-bit halves <<hi, lo>>, value hi * 2^16 + lo, with 0 <= hi, lo <  *)
(* 2^16.  The integer arguments c, lo, hi below are literals under 2^31.    *)

Hi(n) == n[1]
Lo(n) == n[2]
U32(c) == <<c \div 65536, c % 65536>>
Val(n) == Hi(n) * 65536 + Lo(n)            \* only for values under 2^31

u32_eq(n, c) == n = U32(c)
u32_lt(n, c) == Hi(n) < Hi(U32(c)) \/ (Hi(n) = Hi(U32(c)) /\ Lo(n) < Lo(U32(c)))
u32_gt(n, c) == Hi(n) > Hi(U32(c)) \/ (Hi(n) = Hi(U32(c)) /\ Lo(n) > Lo(U32(c)))

\* (lo..=hi).contains(&n)
range_contains(lo, hi, n) == ~u32_lt(n, lo) /\ ~u32_gt(n, hi)

\* [..].contains(&n)
list_contains(list, n) == \E c \in list : u32_eq(n, c)

\* char::to_digit as u32::from_str_radix applies it to one character
to_digit(c) ==
    IF c \in 48..57 THEN c - 48
    ELSE IF c \in 65..70 THEN c - 55
    ELSE IF c \in 97..102 THEN c - 87
    ELSE -1

\* u32::checked_mul(acc, radix) and u32::checked_add(acc, d): the result, or
\* overflow
checked_mul(acc, radix) ==
    LET l == Lo(acc) * radix
        h == Hi(acc) * radix + l \div 65536
    IN  [ok |-> h <= 65535, value |-> <<h, l % 65536>>]

checked_add(acc, d) ==
    LET l == Lo(acc) + d
        h == Hi(acc) + l \div 65536
    IN  [ok |-> h <= 65535, value |-> <<h, l % 65536>>]

\* u32::from_str_radix(s, radix): Ok(value), or Err on an empty string, on a
\* character that is no digit of the radix and on overflow of u32.
RECURSIVE from_str_radix_acc(_, _, _, _)
from_str_radix_acc(s, radix, k, acc) ==
    IF k > Len(s) THEN [ok |-> TRUE, value |-> acc]
    ELSE LET d == to_digit(s[k])
             m == checked_mul(acc, radix)
             a == checked_add(m.value, d)
         IN  IF d < 0 \/ d >= radix THEN [ok |-> FALSE, value |-> U32(0)]
             ELSE IF ~m.ok THEN [ok |-> FALSE, value |-> U32(0)]
             ELSE IF ~a.ok THEN [ok |-> FALSE, value |-> U32(0)]
             ELSE from_str_radix_acc(s, radix, k + 1, a.value)

from_str_radix(s, radix) ==
    IF s = <<>> THEN [ok |-> FALSE, value |-> U32(0)]
    ELSE from_str_radix_acc(s, radix, 1, U32(0))

---------------------------------------------------------------------------
(* Static tables *)

\* TOKEN_REPLACEMENTS (html_parser/token_replacements.rs): the entries the
\* interface description names.
TOKEN_REPLACEMENTS == (\h80 :> \h20AC) @@ (\h85 :> \h2026)

\* TOKEN_REPLACEMENTS.contains_key(&num), *TOKEN_REPLACEMENTS.get(&num).unwrap()
contains_key(table, n) == \E k \in DOMAIN table : u32_eq(n, k)
get(table, n) == table[CHOOSE k \in DOMAIN table : u32_eq(n, k)]

in_reserved_number_range_dropped(cp) ==
       range_contains(\h0001, \h0008, cp)
    \/ range_contains(\h000E, \h001F, cp)
    \/ range_contains(\h007F, \h009F, cp)
    \/ range_contains(\hFDD0, \hFDEF, cp)
    \/ list_contains({
            \h000B, \hFFFE, \hFFFF, \h1FFFE, \h1FFFF, \h2FFFE, \h2FFFF, \h3FFFE, \h3FFFF,
            \h4FFFE, \h4FFFF, \h5FFFE, \h5FFFF, \h6FFFE, \h6FFFF, \h7FFFE, \h7FFFF,
            \h8FFFE, \h9FFFE, \h9FFFF, \hAFFFE, \hAFFFF, \hBFFFE, \hBFFFF,
            \hCFFFE, \hCFFFF, \hDFFFE, \hDFFFF, \hEFFFE, \hEFFFF, \hFFFFE, \hFFFFF,
            \h10FFFE, \h10FFFF }, cp)

\* fn in_reserved_number_range(codepoint: u32) -> bool
in_reserved_number_range(cp) ==
       range_contains(\h0001, \h0008, cp)
    \/ range_contains(\h000E, \h001F, cp)
    \/ range_contains(\h007F, \h009F, cp)
    \/ range_contains(\hFDD0, \hFDEF, cp)
    \/ range_contains(\h000E, \h001F, cp)
    \/ range_contains(\h000E, \h001F, cp)
    \/ range_contains(\h000E, \h001F, cp)
    \/ range_contains(\h000E, \h001F, cp)
    \/ range_contains(\h000E, \h001F, cp)
    \/ list_contains({
            \h000B, \hFFFE, \hFFFF, \h1FFFE, \h1FFFF, \h2FFFE, \h2FFFF, \h3FFFE, \h3FFFF,
            \h4FFFE, \h4FFFF, \h5FFFE, \h5FFFF, \h6FFFE, \h6FFFF, \h7FFFE, \h7FFFF,
            \h8FFFE, \h8FFFF, \h9FFFE, \h9FFFF, \hAFFFE, \hAFFFF, \hBFFFE, \hBFFFF,
            \hCFFFE, \hCFFFF, \hDFFFE, \hDFFFF, \hEFFFE, \hEFFFF, \hFFFFE, \hFFFFF,
            \h10FFFE, \h10FFFF }, cp)

---------------------------------------------------------------------------
(* Tokenizer operations (stream, consume buffer, error sink) *)

\* tokenizer.stream.read_char(): the next character and the advanced cursor,
\* or the EOF signal with the cursor where it was
read_char_eof(s, p) == p >= Len(s)
read_char_c(s, p) == IF p < Len(s) THEN s[p + 1] ELSE NoChar
read_char_pos(s, p) == IF p < Len(s) THEN p + 1 ELSE p

\* tokenizer.stream.unread(): push back exactly one character
unread(p) == IF p > 0 THEN p - 1 ELSE p

\* tokenizer.stream.look_ahead(1): peek the next character
look_ahead(s, p) == IF p < Len(s) THEN s[p + 1] ELSE NoChar

\* tokenizer.consume(c): append to the consume buffer
consume(buf, c) == Append(buf, c)

\* tokenizer.get_consume_len()
get_consume_len(buf) == Len(buf)

\* tokenizer.set_consume_len(len): truncate, never extend
set_consume_len(buf, n) == IF n < Len(buf) THEN SubSeq(buf, 1, n) ELSE buf

\* tokenizer.clear_consume_buffer()
clear_consume_buffer == <<>>

\* tokenizer.parse_error(msg)
parse_error(errs, msg) == Append(errs, msg)

---------------------------------------------------------------------------
(* Inputs *)

MaxTail == 2          \* characters of the stream after the digit run
MaxPre == 1           \* characters in the consume buffer before the call
MaxDense == 70000     \* classifier arguments 0..MaxDense are all tried
MaxShort == 6         \* characters of the streams of the fair specification

Seqs(S, n) == UNION {[1..k -> S] : k \in 0..n}

\* digit values to ASCII digits (upper-case hex letters)
DigitChars(ds) == [k \in 1..Len(ds) |-> IF ds[k] < 10 THEN 48 + ds[k] ELSE 55 + ds[k]]

DigitRuns ==
    { DigitChars(ds) : ds \in {
        <<>>,
        <<0>>, <<1>>, <<9>>, <<1,1>>, <<4,1>>, <<6,5>>,
        <<8,0>>, <<8,1>>, <<8,5>>, <<1,2,7>>, <<1,2,8>>, <<1,3,3>>,
        <<13,8,0,0>>, <<13,8,0,1>>, <<13,15,15,14>>, <<13,15,15,15>>,
        <<5,5,2,9,7>>,
        <<15,13,13,0>>, <<15,15,15,14>>, <<6,5,5,3,4>>,
        <<1,0,15,15,15,13>>, <<1,0,15,15,15,15>>,
        <<1,1,0,0,0,0>>, <<1,1,1,4,1,1,2>>,
        <<1,0,15,15,15,15,15>>, <<1,1,0,0,0,0,0>>,
        <<15,15,15,15,15,15,15,15>>, <<1,0,0,0,0,0,0,0,0>>,
        <<4,2,9,4,9,6,7,2,9,5>>, <<4,2,9,4,9,6,7,2,9,6>> } }
    \cup { <<100, 56, 48, 49>>, <<52, 97>> }      \* "d801", "4a"

Markers == { <<>>, <<CHAR_LOWER_X>>, <<CHAR_UPPER_X>> }

\* ';' and 'g' (a letter that is no hex digit)
Tails == Seqs({CHAR_SEMI, 103}, MaxTail)

NumericStreams ==
    { <<CHAR_AMP, CHAR_DASH>> \o m \o d \o t : m \in Markers, d \in DigitRuns, t \in Tails }

OtherStreams ==
    { <<CHAR_AMP>> \o h \o t :
        h \in { <<>>, <<CHAR_TAB>>, <<CHAR_LF>>, <<CHAR_FF>>, <<103>> }, t \in Tails }

Streams == NumericStreams \cup OtherStreams

Terminators == { NoChar, CHAR_DASH, CHAR_TAB, CHAR_LF, CHAR_FF }

\* earlier buffer content: runs of 'p'
PreBuffers == Seqs({112}, MaxPre)

\* The dense range (it holds 0xFDD0..0xFDEF and plane 0's boundary), the
\* boundaries of planes 0..17, and values around 2^31 and at the top of u32.
SmallCodepoints ==
    (0..MaxDense)
    \cup { n * \h10000 + o : n \in 0..17, o \in {0, 1, \hFFFD, \hFFFE, \hFFFF} }

Codepoints ==
    { U32(c) : c \in SmallCodepoints }
    \cup { <<h, l>> : h \in {\h7FFF, \h8000, \hFFFF}, l \in {0, \hFFFE, \hFFFF} }

NoPrev == [valid |-> FALSE, stream |-> <<>>, buffer |-> <<>>, pos |-> 0, errors |-> <<>>]

---------------------------------------------------------------------------
(* The call *)

\* A tokenizer whose stream stands just after the ampersand, and the call's
\* argument.
InitCall(s, t, b) ==
    /\ stream = s
    /\ pos = 1
    /\ consume_buffer = b
    /\ parse_errors = <<>>
    /\ additional_allowed_char = t
    /\ len = 0 /\ is_hex = FALSE /\ str_num = <<>> /\ i = 0 /\ num = U32(0)
    /\ pre = b
    /\ trace = <<>>

Init ==
    /\ \E s \in Streams, t \in Terminators, b \in PreBuffers : InitCall(s, t, b)
    /\ pc = "start"
    /\ prev = NoPrev
    /\ codepoint = U32(0)
    /\ ret = FALSE

\* The terminator test placed after the match on c instead of before it.
consume_character_reference_late_terminator ==
    /\ pc = "start"
    /\ LET eof == read_char_eof(stream, pos)
           c == read_char_c(stream, pos)
           p == read_char_pos(stream, pos)
       IN  IF eof THEN
               /\ consume_buffer' = clear_consume_buffer
               /\ pos' = p
               /\ trace' = Append(trace, "read_char")
               /\ pc' = "done"
           ELSE IF c \in {CHAR_TAB, CHAR_LF, CHAR_FF} THEN
               /\ pos' = p
               /\ trace' = Append(trace, "read_char")
               /\ pc' = "done"
               /\ UNCHANGED consume_buffer
           ELSE IF c = CHAR_DASH THEN
               /\ pos' = p
               /\ trace' = trace \o <<"read_char", "consume_dash_entity">>
               /\ pc' = "dash"
               /\ UNCHANGED consume_buffer
           ELSE IF additional_allowed_char # NoChar /\ c = additional_allowed_char THEN
               /\ pos' = unread(p)
               /\ consume_buffer' = clear_consume_buffer
               /\ trace' = trace \o <<"read_char", "unread">>
               /\ pc' = "done"
           ELSE
               /\ pos' = p
               /\ trace' = trace \o <<"read_char", "consume_anything_else">>
               /\ pc' = "named"
               /\ UNCHANGED consume_buffer
    /\ UNCHANGED <<stream, parse_errors, additional_allowed_char, loc_vars,
                   pre, prev, codepoint, ret>>

\* The EOF branch returning without clearing the consume buffer.
consume_character_reference_eof_keeps ==
    /\ pc = "start"
    /\ LET eof == read_char_eof(stream, pos)
           c == read_char_c(stream, pos)
           p == read_char_pos(stream, pos)
       IN  IF eof THEN
               /\ pos' = p
               /\ trace' = Append(trace, "read_char")
               /\ pc' = "done"
               /\ UNCHANGED consume_buffer
           ELSE IF additional_allowed_char # NoChar /\ c = additional_allowed_char THEN
               /\ pos' = unread(p)
               /\ consume_buffer' = clear_consume_buffer
               /\ trace' = trace \o <<"read_char", "unread">>
               /\ pc' = "done"
           ELSE IF c \in {CHAR_TAB, CHAR_LF, CHAR_FF} THEN
               /\ pos' = p
               /\ trace' = Append(trace, "read_char")
               /\ pc' = "done"
               /\ UNCHANGED consume_buffer
           ELSE IF c = CHAR_DASH THEN
               /\ pos' = p
               /\ trace' = trace \o <<"read_char", "consume_dash_entity">>
               /\ pc' = "dash"
               /\ UNCHANGED consume_buffer
           ELSE
               /\ pos' = p
               /\ trace' = trace \o <<"read_char", "consume_anything_else">>
               /\ pc' = "named"
               /\ UNCHANGED consume_buffer
    /\ UNCHANGED <<stream, parse_errors, additional_allowed_char, loc_vars,
                   pre, prev, codepoint, ret>>

\* pub fn consume_character_reference(tokenizer, additional_allowed_char):
\* the read of the first character and the dispatch on it (lines 6-25).
consume_character_reference ==
    /\ pc = "start"
    /\ LET eof == read_char_eof(stream, pos)
           c == read_char_c(stream, pos)
           p == read_char_pos(stream, pos)
       IN  IF eof THEN
               /\ consume_buffer' = clear_consume_buffer
               /\ pos' = p
               /\ trace' = Append(trace, "read_char")
               /\ pc' = "done"
           ELSE IF additional_allowed_char # NoChar /\ c = additional_allowed_char THEN
               /\ pos' = unread(p)
               /\ consume_buffer' = clear_consume_buffer
               /\ trace' = trace \o <<"read_char", "unread">>
               /\ pc' = "done"
           ELSE IF c \in {CHAR_TAB, CHAR_LF, CHAR_FF} THEN
               /\ pos' = p
               /\ trace' = Append(trace, "read_char")
               /\ pc' = "done"
               /\ UNCHANGED consume_buffer
           ELSE IF c = CHAR_DASH THEN
               /\ pos' = p
               /\ trace' = trace \o <<"read_char", "consume_dash_entity">>
               /\ pc' = "dash"
               /\ UNCHANGED consume_buffer
           ELSE
               /\ pos' = p
               /\ trace' = trace \o <<"read_char", "consume_anything_else">>
               /\ pc' = "named"
               /\ UNCHANGED consume_buffer
    /\ UNCHANGED <<stream, parse_errors, additional_allowed_char, loc_vars,
                   pre, prev, codepoint, ret>>

\* consume_dash_entity with str_num kept from the call before, as a buffer
\* shared between calls would be.
consume_dash_entity_shared_digits ==
    /\ pc = "dash"
    /\ i' = 0
    /\ len' = get_consume_len(consume_buffer)
    /\ LET hex == look_ahead(stream, pos) IN
       IF hex = CHAR_LOWER_X \/ hex = CHAR_UPPER_X THEN
           /\ is_hex' = TRUE
           /\ pos' = read_char_pos(stream, pos)
           /\ consume_buffer' =
                  consume(consume(consume_buffer, CHAR_DASH), read_char_c(stream, pos))
           /\ trace' = trace \o <<"look_ahead", "read_char">>
       ELSE
           /\ is_hex' = FALSE
           /\ consume_buffer' = consume(consume_buffer, CHAR_DASH)
           /\ trace' = Append(trace, "look_ahead")
           /\ UNCHANGED pos
    /\ pc' = "digits"
    /\ UNCHANGED <<stream, parse_errors, additional_allowed_char, str_num, num,
                   pre, prev, codepoint, ret>>

\* fn consume_dash_entity(tokenizer): the locals str_num and i, the
\* watermark, the '#', the hex marker (lines 29-48).
consume_dash_entity ==
    /\ pc = "dash"
    /\ str_num' = <<>>
    /\ i' = 0
    /\ len' = get_consume_len(consume_buffer)
    /\ LET hex == look_ahead(stream, pos) IN
       IF hex = CHAR_LOWER_X \/ hex = CHAR_UPPER_X THEN
           /\ is_hex' = TRUE
           /\ pos' = read_char_pos(stream, pos)
           /\ consume_buffer' =
                  consume(consume(consume_buffer, CHAR_DASH), read_char_c(stream, pos))
           /\ trace' = trace \o <<"look_ahead", "read_char">>
       ELSE
           /\ is_hex' = FALSE
           /\ consume_buffer' = consume(consume_buffer, CHAR_DASH)
           /\ trace' = Append(trace, "look_ahead")
           /\ UNCHANGED pos
    /\ pc' = "digits"
    /\ UNCHANGED <<stream, parse_errors, additional_allowed_char, num,
                   pre, prev, codepoint, ret>>

\* The digit loop returning at EOF without set_consume_len(len).
digit_loop_eof_keeps ==
    /\ pc = "digits"
    /\ LET eof == read_char_eof(stream, pos)
           c == read_char_c(stream, pos)
       IN  IF eof THEN
               /\ pc' = "done"
               /\ UNCHANGED <<consume_buffer, str_num, i>>
           ELSE IF (is_hex /\ is_ascii_hexdigit(c)) \/ (~is_hex /\ is_ascii_digit(c)) THEN
               /\ str_num' = Append(str_num, c)
               /\ consume_buffer' = consume(consume_buffer, c)
               /\ i' = i + 1
               /\ pc' = "digits"
           ELSE
               /\ pc' = "fetch"
               /\ UNCHANGED <<consume_buffer, str_num, i>>
    /\ pos' = read_char_pos(stream, pos)
    /\ trace' = Append(trace, "read_char")
    /\ UNCHANGED <<stream, parse_errors, additional_allowed_char, len, is_hex, num,
                   pre, prev, codepoint, ret>>

\* The digit loop peeking with look_ahead(1) and never consuming the digit
\* it has seen.
digit_loop_peek ==
    /\ pc = "digits"
    /\ LET eof == read_char_eof(stream, pos)
           c == look_ahead(stream, pos)
       IN  IF eof THEN
               /\ consume_buffer' = set_consume_len(consume_buffer, len)
               /\ pc' = "done"
               /\ trace' = Append(trace, "read_char")
               /\ UNCHANGED <<str_num, i, pos>>
           ELSE IF (is_hex /\ is_ascii_hexdigit(c)) \/ (~is_hex /\ is_ascii_digit(c)) THEN
               /\ pc' = "digits"
               /\ UNCHANGED <<consume_buffer, str_num, i, pos, trace>>
           ELSE
               /\ pc' = "fetch"
               /\ pos' = read_char_pos(stream, pos)
               /\ trace' = Append(trace, "read_char")
               /\ UNCHANGED <<consume_buffer, str_num, i>>
    /\ UNCHANGED <<stream, parse_errors, additional_allowed_char, len, is_hex, num,
                   pre, prev, codepoint, ret>>

\* consume_dash_entity: one iteration of the digit loop (lines 49-67).
digit_loop ==
    /\ pc = "digits"
    /\ LET eof == read_char_eof(stream, pos)
           c == read_char_c(stream, pos)
       IN  IF eof THEN
               /\ consume_buffer' = set_consume_len(consume_buffer, len)
               /\ pc' = "done"
               /\ UNCHANGED <<str_num, i>>
           ELSE IF (is_hex /\ is_ascii_hexdigit(c)) \/ (~is_hex /\ is_ascii_digit(c)) THEN
               /\ str_num' = Append(str_num, c)
               /\ consume_buffer' = consume(consume_buffer, c)
               /\ i' = i + 1
               /\ pc' = "digits"
           ELSE
               /\ pc' = "fetch"
               /\ UNCHANGED <<consume_buffer, str_num, i>>
    /\ pos' = read_char_pos(stream, pos)
    /\ trace' = Append(trace, "read_char")
    /\ UNCHANGED <<stream, parse_errors, additional_allowed_char, len, is_hex, num,
                   pre, prev, codepoint, ret>>

\* The return on a missing ';' without set_consume_len(len).
fetch_next_error_keeps ==
    /\ pc = "fetch"
    /\ LET eof == read_char_eof(stream, pos)
           c == read_char_c(stream, pos)
       IN  IF eof THEN
               /\ consume_buffer' = set_consume_len(consume_buffer, len)
               /\ pc' = "done"
               /\ UNCHANGED parse_errors
           ELSE IF c # CHAR_SEMI THEN
               /\ parse_errors' = parse_error(parse_errors, "expected a ';'")
               /\ pc' = "done"
               /\ UNCHANGED consume_buffer
           ELSE IF i = 0 THEN
               /\ parse_errors' = parse_error(parse_errors, "didn't expect #;")
               /\ consume_buffer' = set_consume_len(consume_buffer, len)
               /\ pc' = "done"
           ELSE
               /\ pc' = "replace"
               /\ UNCHANGED <<consume_buffer, parse_errors>>
    /\ pos' = read_char_pos(stream, pos)
    /\ trace' = Append(trace, "read_char")
    /\ UNCHANGED <<stream, additional_allowed_char, loc_vars, pre, prev, codepoint, ret>>

\* consume_dash_entity: "Fetch next character", the ';' test and the digit
\* count test (lines 69-88).
fetch_next ==
    /\ pc = "fetch"
    /\ LET eof == read_char_eof(stream, pos)
           c == read_char_c(stream, pos)
       IN  IF eof THEN
               /\ consume_buffer' = set_consume_len(consume_buffer, len)
               /\ pc' = "done"
               /\ UNCHANGED parse_errors
           ELSE IF c # CHAR_SEMI THEN
               /\ parse_errors' = parse_error(parse_errors, "expected a ';'")
               /\ consume_buffer' = set_consume_len(consume_buffer, len)
               /\ pc' = "done"
           ELSE IF i = 0 THEN
               /\ parse_errors' = parse_error(parse_errors, "didn't expect #;")
               /\ consume_buffer' = set_consume_len(consume_buffer, len)
               /\ pc' = "done"
           ELSE
               /\ pc' = "replace"
               /\ UNCHANGED <<consume_buffer, parse_errors>>
    /\ pos' = read_char_pos(stream, pos)
    /\ trace' = Append(trace, "read_char")
    /\ UNCHANGED <<stream, additional_allowed_char, loc_vars, pre, prev, codepoint, ret>>

\* consume_dash_entity: the conversion of str_num and the lookup in
\* TOKEN_REPLACEMENTS (lines 90-101).
replace ==
    /\ pc = "replace"
    /\ LET r == from_str_radix(str_num, IF is_hex THEN 16 ELSE 10)
           n == IF r.ok THEN r.value ELSE U32(0)
       IN  /\ num' = n
           /\ IF contains_key(TOKEN_REPLACEMENTS, n) THEN
                  /\ consume_buffer' =
                         consume(set_consume_len(consume_buffer, len),
                                 get(TOKEN_REPLACEMENTS, n))
                  /\ pc' = "done"
                  /\ trace' = Append(trace, "replaced")
              ELSE
                  /\ pc' = "guard"
                  /\ UNCHANGED <<consume_buffer, trace>>
    /\ UNCHANGED <<stream, pos, parse_errors, additional_allowed_char, len, is_hex,
                   str_num, i, pre, prev, codepoint, ret>>

\* The test of line 104 with an upper limit of 0xFFFFF, below the last
\* entries of the reserved list.
guard_low_limit ==
    /\ pc = "guard"
    /\ IF (u32_gt(num, \hD800) /\ u32_lt(num, \hDFFF)) \/ u32_gt(num, \hFFFFF) THEN
           /\ parse_errors' =
                  parse_error(parse_errors, "within reserved codepoint range, but replaced")
           /\ consume_buffer' =
                  consume(set_consume_len(consume_buffer, len), CHAR_REPLACEMENT)
           /\ trace' = Append(trace, "guard")
       ELSE
           UNCHANGED <<consume_buffer, parse_errors, trace>>
    /\ pc' = "reserved"
    /\ UNCHANGED <<stream, pos, additional_allowed_char, loc_vars, pre, prev,
                   codepoint, ret>>

\* consume_dash_entity: the 0xD800..0xDFFF / upper limit test (lines 103-108).
guard ==
    /\ pc = "guard"
    /\ IF (u32_gt(num, \hD800) /\ u32_lt(num, \hDFFF)) \/ u32_gt(num, \h10FFFFF) THEN
           /\ parse_errors' =
                  parse_error(parse_errors, "within reserved codepoint range, but replaced")
           /\ consume_buffer' =
                  consume(set_consume_len(consume_buffer, len), CHAR_REPLACEMENT)
           /\ trace' = Append(trace, "guard")
       ELSE
           UNCHANGED <<consume_buffer, parse_errors, trace>>
    /\ pc' = "reserved"
    /\ UNCHANGED <<stream, pos, additional_allowed_char, loc_vars, pre, prev,
                   codepoint, ret>>

\* consume_dash_entity: the reserved range test (lines 110-115).
reserved ==
    /\ pc = "reserved"
    /\ IF in_reserved_number_range(num) THEN
           /\ consume_buffer' = set_consume_len(consume_buffer, len)
           /\ parse_errors' =
                  parse_error(parse_errors, "within reserved codepoint range, ignored")
           /\ trace' = Append(trace, "reserved")
       ELSE
           UNCHANGED <<consume_buffer, parse_errors, trace>>
    /\ pc' = "done"
    /\ UNCHANGED <<stream, pos, additional_allowed_char, loc_vars, pre, prev,
                   codepoint, ret>>

\* fn consume_anything_else(tokenizer): an empty body (lines 143-146).
consume_anything_else ==
    /\ pc = "named"
    /\ pc' = "done"
    /\ UNCHANGED <<tok_vars, loc_vars, pre, trace, prev, codepoint, ret>>

\* The stream with the case of its hex marker changed.
SwapHexMarker(s) ==
    IF Len(s) >= 3 /\ s[2] = CHAR_DASH /\ s[3] \in {CHAR_LOWER_X, CHAR_UPPER_X}
    THEN [s EXCEPT ![3] = IF s[3] = CHAR_LOWER_X THEN CHAR_UPPER_X ELSE CHAR_LOWER_X]
    ELSE s

\* For a stream that holds the reference `#0` and a tail: the streams that
\* hold, before the same tail, a reference whose digits do not fit u32 in
\* their radix.
OverflowReferences(s) ==
    IF /\ Len(s) >= 3 /\ s[2] = CHAR_DASH /\ s[3] = 48
       /\ Len(s) = 3 \/ ~is_ascii_digit(s[4])
    THEN UNION { { <<CHAR_AMP, CHAR_DASH>> \o m \o d \o SubSeq(s, 4, Len(s)) :
                     d \in { dd \in DigitRuns :
                               /\ dd # <<>>
                               /\ \A k \in 1..Len(dd) :
                                      IF m = <<>> THEN is_ascii_digit(dd[k])
                                      ELSE is_ascii_hexdigit(dd[k])
                               /\ ~from_str_radix(dd, IF m = <<>> THEN 10 ELSE 16).ok } } :
                 m \in Markers }
    ELSE {}

\* A second, independent tokenizer: the same buffer contents and argument as
\* the first had, and the same stream, the stream with the other hex marker,
\* or, after `#0`, a reference that overflows u32.  The outcome of the first
\* call is kept for comparison; the locals of the finished call are dead and
\* hold what it left in them.
second_pair ==
    /\ pc = "done"
    /\ ~prev.valid
    /\ prev' = [valid |-> TRUE, stream |-> stream, buffer |-> consume_buffer,
                pos |-> pos, errors |-> parse_errors]
    /\ \E s \in {stream, SwapHexMarker(stream)} \cup OverflowReferences(stream) :
           /\ stream' = s
           /\ pos' = 1
           /\ consume_buffer' = pre
           /\ parse_errors' = <<>>
           /\ trace' = <<>>
    /\ pc' = "start"
    /\ UNCHANGED <<additional_allowed_char, loc_vars, pre, codepoint, ret>>

Next ==
    \/ consume_character_reference
    \/ consume_dash_entity
    \/ digit_loop
    \/ fetch_next
    \/ replace
    \/ guard
    \/ reserved
    \/ consume_anything_else
    \/ second_pair

Spec == Init /\ [][Next]_vars

\* The calls on the streams of at most MaxShort characters, each run once.
InitShort ==
    /\ \E s \in {x \in Streams : Len(x) <= MaxShort}, t \in Terminators :
           InitCall(s, t, <<112>>)
    /\ pc = "start"
    /\ prev = NoPrev
    /\ codepoint = U32(0)
    /\ ret = FALSE

NextCall ==
    \/ consume_character_reference
    \/ consume_dash_entity
    \/ digit_loop
    \/ fetch_next
    \/ replace
    \/ guard
    \/ reserved
    \/ consume_anything_else

\* The call runs to its return without waiting on anything: a step that can
\* be taken is taken.
FairSpec == InitShort /\ [][NextCall]_vars /\ WF_vars(NextCall)

---------------------------------------------------------------------------
(* The classifier on its own *)

InitClassifier ==
    /\ InitCall(<<CHAR_AMP, CHAR_DASH, 49, CHAR_SEMI>>, NoChar, <<112>>)
    /\ pc = "classify"
    /\ prev = NoPrev
    /\ codepoint \in Codepoints
    /\ ret = FALSE

\* A call of in_reserved_number_range(codepoint).
classify ==
    /\ pc = "classify"
    /\ ret' = in_reserved_number_range(codepoint)
    /\ pc' = "classified"
    /\ UNCHANGED <<tok_vars, loc_vars, pre, trace, prev, codepoint>>

NextClassifier == classify

SpecClassifier == InitClassifier /\ [][NextClassifier]_vars

---------------------------------------------------------------------------
(* The call on a hex reference to each value of Codepoints *)

\* the eight hex digits of a u32
HexDigits(n) ==
    DigitChars(<<Hi(n) \div 4096, (Hi(n) \div 256) % 16, (Hi(n) \div 16) % 16, Hi(n) % 16,
                 Lo(n) \div 4096, (Lo(n) \div 256) % 16, (Lo(n) \div 16) % 16, Lo(n) % 16>>)

\* `&#x<digits>;;`: the second ';' is the character line 70 reads
ValueStreams ==
    { <<CHAR_AMP, CHAR_DASH, CHAR_LOWER_X>> \o HexDigits(n) \o <<CHAR_SEMI, CHAR_SEMI>> :
          n \in Codepoints }

InitValues ==
    /\ \E s \in ValueStreams : InitCall(s, NoChar, <<112>>)
    /\ pc = "start"
    /\ prev = NoPrev
    /\ codepoint = U32(0)
    /\ ret = FALSE

NextValues ==
    \/ consume_character_reference
    \/ consume_dash_entity
    \/ digit_loop
    \/ fetch_next
    \/ replace
    \/ guard
    \/ reserved

SpecValues == InitValues /\ [][NextValues]_vars

----------------------------------------------------------------------------
(* Vocabulary of the properties: the reference as it stands in the stream,  *)
(* read off the input text and not off the decoder's variables.             *)

Returned == pc = "done"

\* the first character after the ampersand
FirstChar == IF Len(stream) >= 2 THEN stream[2] ELSE NoChar

\* the text after the ampersand starts with '#', and the '#' is not the
\* terminator the caller asked to stop at
NumericReference == FirstChar = CHAR_DASH /\ additional_allowed_char # CHAR_DASH

HexMarked == Len(stream) >= 3 /\ stream[3] \in {CHAR_LOWER_X, CHAR_UPPER_X}

DigitStart == IF HexMarked THEN 4 ELSE 3

RefDigit(c) == IF HexMarked THEN is_ascii_hexdigit(c) ELSE is_ascii_digit(c)

\* the last position of the longest run of digits that starts at DigitStart
DigitEnd ==
    CHOOSE k \in (DigitStart - 1)..Len(stream) :
        /\ \A j \in DigitStart..k : RefDigit(stream[j])
        /\ k = Len(stream) \/ ~RefDigit(stream[k + 1])

RefDigits == SubSeq(stream, DigitStart, DigitEnd)

\* the digit run is followed by ';'
Terminated == DigitEnd < Len(stream) /\ stream[DigitEnd + 1] = CHAR_SEMI

\* `#<digits>;` or `#x<digits>;` with at least one digit
WellFormed == NumericReference /\ RefDigits # <<>> /\ Terminated

\* the number the digits denote in the radix, as halves <<hi, lo>> with hi
\* unbounded; it fits u32 when hi < 2^16
RECURSIVE DigitsValue(_, _, _, _)
DigitsValue(s, radix, k, acc) ==
    IF k > Len(s) THEN acc
    ELSE LET l == Lo(acc) * radix + to_digit(s[k])
         IN  DigitsValue(s, radix, k + 1, <<Hi(acc) * radix + l \div 65536, l % 65536>>)

RefValue == DigitsValue(RefDigits, IF HexMarked THEN 16 ELSE 10, 1, <<0, 0>>)

FitsU32(v) == Hi(v) <= 65535

\* the value the decoder works with: 0 stands in for a number that does not
\* fit u32
ParsedValue == IF FitsU32(RefValue) THEN RefValue ELSE <<0, 0>>

InLegacyTable(v) == Hi(v) = 0 /\ Lo(v) \in DOMAIN TOKEN_REPLACEMENTS

\* strictly between 0xD800 and 0xDFFF, or above 0x10FFFF
GuardedValue(v) == (Hi(v) = 0 /\ Lo(v) > \hD800 /\ Lo(v) < \hDFFF) \/ Hi(v) > \h10

\* a Unicode scalar value: at most 0x10FFFF and no surrogate
ValidScalar(v) == Hi(v) <= \h10 /\ ~(Hi(v) = 0 /\ Lo(v) \in \hD800..\hDFFF)

\* C1: a well-formed decimal reference `#<digits>;`, no terminator supplied,
\* whose value is a valid scalar other than 0 (`#0;` is the subject of C5),
\* not in the legacy table and not reserved, leaves the buffer as it was
\* before the call followed by that one character, and no parse error.
C1_DecimalReferenceDecodes ==
    (/\ Returned
     /\ additional_allowed_char = NoChar
     /\ WellFormed /\ ~HexMarked
     /\ ValidScalar(RefValue) /\ RefValue # <<0, 0>>
     /\ ~InLegacyTable(RefValue)
     /\ ~in_reserved_number_range(RefValue))
    => /\ consume_buffer = Append(pre, Val(RefValue))
       /\ parse_errors = <<>>

\* C2: `#x` d `;` and `#X` d `;` decoded from identical starting states end
\* with the same buffer, stream position and parse errors, and d is read in
\* radix 16: a value that is an ordinary scalar ends as the buffer's one new
\* character.
C2_HexMarkerCaseInsensitive ==
    (/\ Returned
     /\ prev.valid
     /\ WellFormed /\ HexMarked
     /\ prev.stream = SwapHexMarker(stream))
    => /\ prev.buffer = consume_buffer
       /\ prev.pos = pos
       /\ prev.errors = parse_errors
       /\ (/\ ValidScalar(ParsedValue)
           /\ ~InLegacyTable(ParsedValue)
           /\ ~in_reserved_number_range(ParsedValue)
           /\ ParsedValue # <<0, 0>>)
          => consume_buffer = Append(pre, Val(ParsedValue))

\* C3: a well-formed reference whose parsed value is a key of the legacy
\* table ends with the buffer as it was before the '#' followed by the mapped
\* character, without a parse error and without the guard or the reserved
\* range test having acted.
C3_LegacySubstitutionFirst ==
    (Returned /\ WellFormed /\ InLegacyTable(ParsedValue))
    => /\ consume_buffer = Append(pre, TOKEN_REPLACEMENTS[Lo(ParsedValue)])
       /\ parse_errors = <<>>
       /\ \A k \in 1..Len(trace) : trace[k] \notin {"guard", "reserved"}

\* C4: a numeric reference whose digit run is not followed by ';' (another
\* character, or the end of the stream) records a parse error and leaves the
\* buffer as it was before the '#'.
C4_MissingSemicolon ==
    (Returned /\ NumericReference /\ RefDigits # <<>> /\ ~Terminated)
    => /\ parse_errors # <<>>
       /\ consume_buffer = pre

\* C5: `#0;` and the references with no digit before the ';' (`#;`, `#x;`,
\* `#X;`) record a parse error and leave the buffer as it was before the
\* '#', whatever follows the ';'.
C5_ZeroOrNoDigits ==
    (/\ Returned /\ NumericReference /\ Terminated
     /\ \/ RefDigits = <<>>
        \/ (~HexMarked /\ RefDigits = <<48>>))
    => /\ parse_errors # <<>>
       /\ consume_buffer = pre

\* C6: a well-formed reference whose parsed value is not in the legacy table
\* and lies strictly between 0xD800 and 0xDFFF or above 0x10FFFF ends with
\* the buffer as it was before the '#' followed by U+FFFD, and a parse error.
C6_SurrogateOverflowGuard ==
    (/\ Returned /\ WellFormed
     /\ ~InLegacyTable(ParsedValue)
     /\ GuardedValue(ParsedValue))
    => /\ consume_buffer = Append(pre, CHAR_REPLACEMENT)
       /\ parse_errors # <<>>

\* C7: a well-formed reference whose parsed value is not in the legacy table
\* and is reserved according to in_reserved_number_range ends with the
\* buffer as it was before the '#', nothing appended, and a parse error.
C7_ReservedDropped ==
    (/\ Returned /\ WellFormed
     /\ ~InLegacyTable(ParsedValue)
     /\ in_reserved_number_range(ParsedValue))
    => /\ consume_buffer = pre
       /\ parse_errors # <<>>

\* The set the classifier is documented to decide: 0x1..0x8, 0xE..0x1F,
\* 0x7F..0x9F, 0xFDD0..0xFDEF, 0x0B, and 0xnFFFE / 0xnFFFF for the planes
\* n = 0..16.
ReservedSet(v) ==
    \/ /\ Hi(v) = 0
       /\ Lo(v) \in (\h1..\h8) \cup (\hE..\h1F) \cup (\h7F..\h9F) \cup (\hFDD0..\hFDEF) \cup {\hB}
    \/ /\ Hi(v) \in 0..16
       /\ Lo(v) \in {\hFFFE, \hFFFF}

\* C8: in_reserved_number_range(c) is true exactly for the members of that
\* set, in particular false for 0x0, 0x9, 0xA, 0xC, 0xD, 0x20..0x7E and 0xA0,
\* and the call leaves stream, buffer and error sink as they were.
C8_ReservedRangeExact ==
    pc = "classified" =>
        /\ ret <=> ReservedSet(codepoint)
        /\ (Hi(codepoint) = 0 /\ Lo(codepoint) \in {\h0, \h9, \hA, \hC, \hD, \hA0} \cup (\h20..\h7E))
           => ~ret
        /\ pos = 1 /\ consume_buffer = pre /\ parse_errors = <<>>

\* C8's case: the classifier has answered true for the last noncharacter,
\* 0x10FFFF.
C8_Witness == pc = "classified" /\ codepoint = <<\h10, \hFFFF>> /\ ret

\* C9: when the first character read equals the supplied terminator, the
\* call returns with the cursor where it was (one read, one unread), the
\* buffer cleared, no parse error and no decoder invoked, also for the
\* terminators '#', tab, line feed and form feed.
C9_TerminatorSuppression ==
    (Returned /\ additional_allowed_char # NoChar /\ FirstChar = additional_allowed_char)
    => /\ pos = 1
       /\ consume_buffer = <<>>
       /\ parse_errors = <<>>
       /\ trace = <<"read_char", "unread">>

\* C9's case: the call has returned on a '#' that is the terminator, with a
\* digit behind it, and the buffer that held a character is empty.
C9_Witness ==
    /\ Returned
    /\ additional_allowed_char = CHAR_DASH /\ FirstChar = CHAR_DASH
    /\ Len(stream) >= 3 /\ is_ascii_digit(stream[3])
    /\ pre # <<>> /\ consume_buffer = <<>>
    /\ trace = <<"read_char", "unread">>

\* C10: when the first character read is tab, line feed or form feed and is
\* not the terminator, the call returns with the buffer unchanged, no parse
\* error, and that character still the next one the stream delivers.
C10_WhitespaceLeftForCaller ==
    (/\ Returned
     /\ FirstChar \in {CHAR_TAB, CHAR_LF, CHAR_FF}
     /\ additional_allowed_char # FirstChar)
    => /\ consume_buffer = pre
       /\ parse_errors = <<>>
       /\ look_ahead(stream, pos) = FirstChar

\* the stream holds nothing after the ampersand: EOF on entry
EofOnEntry == Len(stream) = 1

\* C11 as stated: with the stream at EOF on entry, the call returns with the
\* consume buffer holding what it held before the call, no parse error and
\* no decoder invoked.
C11_EofKeepsBuffer ==
    (Returned /\ EofOnEntry)
    => /\ consume_buffer = pre
       /\ parse_errors = <<>>
       /\ trace = <<"read_char">>

\* C11 as the code has it: with the stream at EOF on entry, the call returns
\* with the consume buffer cleared (empty, whatever it held before), no parse
\* error and no decoder invoked.
C11_EofClearsBuffer ==
    (Returned /\ EofOnEntry)
    => /\ consume_buffer = <<>>
       /\ parse_errors = <<>>
       /\ pos = 1
       /\ trace = <<"read_char">>

\* C11's case: the call has returned from a stream at EOF, and the buffer
\* that held a character is empty.
C11_Witness ==
    Returned /\ EofOnEntry /\ pre # <<>> /\ consume_buffer = <<>> /\ trace = <<"read_char">>

\* C12: whenever a read of the numeric decoder meets the end of the stream
\* (after the '#', after the hex marker, inside the digit run, or at the
\* read of the terminator candidate), that step ends the call with the
\* buffer exactly as it was before the '#' and with no parse error recorded.
C12_EofRestoresWatermark ==
    [][ (pc \in {"digits", "fetch"} /\ read_char_eof(stream, pos))
        => /\ pc' = "done"
           /\ consume_buffer' = pre
           /\ Len(consume_buffer') = len
           /\ parse_errors' = <<>> ]_vars

\* C12's case: the call has returned from a stream that ends inside the
\* digit run of a hex reference, and the buffer that held a character holds
\* it alone again.
C12_Witness ==
    /\ Returned /\ NumericReference
    /\ HexMarked /\ RefDigits # <<>> /\ DigitEnd = Len(stream)
    /\ pre # <<>> /\ consume_buffer = pre /\ parse_errors = <<>>

\* the stream with the reference replaced by `#0`, the rest kept
ZeroReference ==
    <<CHAR_AMP, CHAR_DASH, 48>> \o SubSeq(stream, DigitEnd + 1, Len(stream))

\* C13: a well-formed reference whose digits do not fit u32 in their radix
\* ends with the same buffer contents and the same parse errors as `#0;`
\* decoded from the same starting state.
C13_OverflowAsZero ==
    (/\ Returned
     /\ prev.valid
     /\ WellFormed /\ ~FitsU32(RefValue)
     /\ prev.stream = ZeroReference)
    => /\ prev.buffer = consume_buffer
       /\ prev.errors = parse_errors

\* the first character is none of the terminator, tab, LF, FF and '#'
NamedDispatch ==
    /\ FirstChar \notin {NoChar, CHAR_TAB, CHAR_LF, CHAR_FF, CHAR_DASH}
    /\ FirstChar # additional_allowed_char

\* The entity names that can stand in a text of 'g' and ';': `gg;`, `ggg;`.
\* No name matches when none of them starts the text after the ampersand.
NoNameMatches ==
    \A name \in { <<103, 103, 59>>, <<103, 103, 103, 59>> } :
        \/ Len(stream) - 1 < Len(name)
        \/ SubSeq(stream, 2, 1 + Len(name)) # name

\* C14: when the first character is not the terminator, not tab, LF or FF and
\* not '#', the named decoder is invoked, and when no entity name matches, a
\* parse error is recorded and the buffer holds what it held before the call
\* followed by the characters read from the stream.
C14_NamedReferenceNoMatch ==
    (Returned /\ NamedDispatch /\ NoNameMatches)
    => /\ \E k \in 1..Len(trace) : trace[k] = "consume_anything_else"
       /\ parse_errors # <<>>
       /\ consume_buffer = pre \o SubSeq(stream, 2, pos)

\* inside consume_dash_entity, after the watermark has been taken
InDecoder == pc \in {"digits", "fetch", "replace", "guard", "reserved"}

\* the buffer still starts with what it held before the call, and the
\* watermark is the length it had then and no more than its length now
WatermarkKept ==
    /\ len = Len(pre)
    /\ len <= Len(consume_buffer)
    /\ SubSeq(consume_buffer, 1, len) = pre

\* a step that leaves the decoder from the digit loop or from the test of
\* the terminator candidate: the returns on EOF, on a missing ';' and on a
\* reference without digits
MalformedExit == pc \in {"digits", "fetch"} /\ pc' = "done"

\* C15: in every state of consume_dash_entity, and when it has returned, the
\* buffer is at least as long as the watermark taken on entry and starts
\* with the contents it had before the call, so that a truncate to the
\* watermark never extends it; and every exit on malformed input (missing
\* ';', no digits, EOF) leaves the buffer exactly as it was before the call.
C15_WatermarkRollback ==
    /\ [](InDecoder => WatermarkKept)
    /\ []((Returned /\ NumericReference) => WatermarkKept)
    /\ [][MalformedExit => consume_buffer' = pre]_vars

\* C15's case: the decoder has left on a missing ';' after two digits were
\* appended, and the buffer that held a character holds it alone again.
C15_Witness ==
    /\ Returned /\ NumericReference
    /\ Len(RefDigits) >= 2
    /\ parse_errors = <<"expected a ';'">>
    /\ pre # <<>> /\ consume_buffer = pre


\* a second tokenizer was started on the stream, buffer and terminator the
\* first call started with
SameStart == prev.valid /\ prev.stream = stream

C17_TerminatorCandidate ==
    /\ (pc = "fetch" /\ NumericReference) => pos = DigitEnd
    /\ (Returned /\ WellFormed)
       => /\ pos = DigitEnd + 1
          /\ \A k \in 1..Len(parse_errors) : parse_errors[k] # "expected a ';'"

InTrace(e) == \E k \in 1..Len(trace) : trace[k] = e

\* C18: no value passes both the surrogate/upper-limit test and the reserved
\* range test, so a call that appended U+FFFD returns with it at the end of
\* the buffer, and a call records at most one parse error.
C18_GuardReservedExclusive ==
    /\ ~(InTrace("guard") /\ InTrace("reserved"))
    /\ (Returned /\ InTrace("guard")) => consume_buffer = Append(pre, CHAR_REPLACEMENT)
    /\ Len(parse_errors) <= 1

\* C18's case: a call on a surrogate has gone through both tests and
\* returned with U+FFFD after the earlier contents of the buffer.
C18_Witness ==
    /\ Returned
    /\ num = U32(\hDABC)
    /\ InTrace("guard")
    /\ parse_errors = <<"within reserved codepoint range, but replaced">>
    /\ consume_buffer = <<112, CHAR_REPLACEMENT>>

\* an iteration of the digit loop that stays in the loop
LoopIteration == pc = "digits" /\ pc' = "digits"

\* the digit loop stands before a digit of the active mode
AtDigit == pos < Len(stream) /\ RefDigit(stream[pos + 1])

\* C19: every call returns; an iteration of the digit loop consumes exactly
\* one character of the stream, the loop goes on while the next character is
\* a digit and is left at the first other character or at the end of the
\* stream; and nothing is read from the stream after an unread.
C19_Termination ==
    /\ (pc = "start") ~> Returned
    /\ [][LoopIteration => pos' = pos + 1]_vars
    /\ [][(pc = "digits") => (AtDigit <=> pc' = "digits")]_vars
    /\ [](\A k \in 1..Len(trace) : trace[k] = "unread" => k = Len(trace))

\* C19's case: a call has returned after its digit loop went through the
\* three digits of the reference.
C19_Witness ==
    /\ Returned /\ NumericReference
    /\ Len(RefDigits) >= 3
    /\ i = Len(RefDigits)
    /\ pos > DigitEnd
=============================================================================
